---- MODULE Spec2Model ----
(***************************************************************************)
(* A model of the ingestion and export pipeline of tropius-maximus:        *)
(* scripts/ingest.py (region lookup, card ingestion with resume, retry     *)
(* and upsert, species metadata with the evolution-chain cache, the        *)
(* orchestrator) and scripts/export_parquet.py (the table exporter).       *)
(*                                                                         *)
(* Each subsystem has its own specification over the module's variables;   *)
(* the variables of the other subsystems are held at their idle values.    *)
(***************************************************************************)
EXTENDS Integers, Sequences, FiniteSets, TLC

VARIABLES
    \* ---- ingest_cards / fetch_cards_from_api ----
    cards,           \* the cards table: a set of rows
    set_lookup,      \* ingest_cards' argument: set id -> set record
    set_ids,         \* the target list of set ids
    force,           \* the force flag
    i,               \* 1-based position in set_ids (enumerate(set_ids, 1))
    pc,              \* "idle" | "loop" | "fetch"
    total_ingested,
    skipped_count,
    page,            \* fetch_cards_from_api: page
    attempt,         \* fetch_cards_from_api: index of the current attempt
    all_cards,       \* fetch_cards_from_api: all_cards
    fetched,         \* history: set ids a page request was issued for, this run
    out,             \* the last line ingest_cards printed: [kind, sid, page]
    \* ---- export_parquet.export / safe_export ----
    db,              \* the exporter's database: table -> its rows, if it exists
    files,           \* the output directory: table -> its parquet file
    report,          \* the line safe_export printed for each table
    xi,              \* 1-based position in export()'s calls; 6 after "Done!"
    \* ---- get_region_generation ----
    pokedex_num,     \* the argument
    region_result,   \* << >> before the call, <<result>> after it
    \* ---- ingest_pokemon_metadata ----
    pokemon_metadata,  \* the pokemon_metadata table: a set of rows
    all_species,     \* the species listing: pokedex numbers, in listing order
    sp,              \* 1-based position in all_species
    ppc,             \* "idle" | "loop" | "done" | "skipped" | "aborted"
    chain_cache,     \* chain_cache: chain URL -> flattened name list
    ingested,        \* ingested
    chain_fetches,   \* history: chain URL -> GET requests made for it, this run
    chain_urls,      \* history: pokedex number -> chain URL its detail carried
    \* ---- run_ingestion ----
    rpc,             \* "called" | "initialized" | "metadata" | "sets" |
                     \* "returned" | "aborted"
    run_args,        \* [set_id, skip_pokemon, force]
    run_lookup,      \* run_ingestion's local set_lookup: << >> or <<lookup>>
    run_result,      \* << >> or <<the value run_ingestion returned>>
    stages,          \* history: the calls run_ingestion made, in order
    sets_returned,   \* history: what ingest_sets returned: << >> or <<lookup>>
    cards_call,      \* history: ingest_cards' arguments and return value
    \* ---- fetch_evolution_chain ----
    chain_data,      \* what the GET of the chain URL yields: << >> or <<tree>>
    chain_names      \* << >> before the call, <<the list returned>> after it

cardVars == <<cards, set_lookup, set_ids, force, i, pc, total_ingested,
              skipped_count, page, attempt, all_cards, fetched, out>>

exportVars == <<db, files, report, xi>>

regionVars == <<pokedex_num, region_result>>

pokeVars == <<pokemon_metadata, all_species, sp, ppc, chain_cache, ingested,
              chain_fetches, chain_urls>>

runVars == <<rpc, run_args, run_lookup, run_result, stages, sets_returned,
             cards_call>>

chainVars == <<chain_data, chain_names>>

vars == <<cardVars, exportVars, regionVars, pokeVars, runVars, chainVars>>

notCards  == <<exportVars, regionVars, pokeVars, runVars, chainVars>>
notExport == <<cardVars, regionVars, pokeVars, runVars, chainVars>>
notRegion == <<cardVars, exportVars, pokeVars, runVars, chainVars>>
notPoke   == <<cardVars, exportVars, regionVars, runVars, chainVars>>
notRun    == <<cardVars, exportVars, regionVars, pokeVars, chainVars>>
notChain  == <<cardVars, exportVars, regionVars, pokeVars, runVars>>

-----------------------------------------------------------------------------
\* Python None / SQL NULL in a string-valued field.
NULL == "null"

\* ---- bounds ----
\* Number of pages after which the remote API ends a set's listing.
MaxPages == 2

\* Most rows a table of the exporter's database holds.
MaxRows == 1

\* Largest species number looked up (the table ends at 1025).
MaxPokedex == 1030

\* Number of species the species listing holds.
NumSpecies == 3

\* Largest total ingest_cards returns to run_ingestion.
MaxTotal == 2

\* Most direct evolutions a node of a generated chain tree has.
MaxEvolutions == 3

\* page_size is 250 in the source; the model runs it scaled down, so that a
\* full page (and with it a second page) fits the card ids below.
page_size == 2

\* ---- program constants ----
MAX_RETRIES == 3

\* ---- input universes ----
SetIds == {"s1", "s2"}
SetNames == [s \in SetIds |-> IF s = "s1" THEN "Base" ELSE "Jungle"]
\* The card ids the API knows; either set's listing may hold either id.
CardIds == {1, 2}

\* The field values the API may report for a card: two versions that differ
\* in the name and in both pricing payloads.
CardVersions ==
    { [name |-> "a", tcgplayer |-> NULL, cardmarket |-> NULL],
      [name |-> "b", tcgplayer |-> "tp", cardmarket |-> NULL] }

ApiCards ==
    { [id |-> c, name |-> v.name, tcgplayer |-> v.tcgplayer,
       cardmarket |-> v.cardmarket] : c \in CardIds, v \in CardVersions }

\* One page of the API: at most page_size cards, ordered by id, no id twice.
ApiPages ==
    { p \in UNION { [1..n -> ApiCards] : n \in 0..page_size } :
        \A a, b \in 1..Len(p) : a < b => p[a].id < p[b].id }

\* totalCount as the API reports it: nothing more to come, or more than any
\* listing of MaxPages pages holds.
TotalCounts == { 0, page_size * MaxPages + 1 }

\* The set records of sets/en.json that ingest_cards reads.
SetRecords(s) == { [name |-> SetNames[s], total |-> t] : t \in {1, 2} }

\* A lookup holds a record for some of the set ids.
Lookups ==
    UNION { { l \in [D -> UNION { SetRecords(s) : s \in D }] :
                \A s \in D : l[s] \in SetRecords(s) } : D \in SUBSET SetIds }

\* The target lists: one requested set, or the file listing (the names of a
\* directory listing: distinct, in name order).
TargetLists == { <<"s1">>, <<"s2">>, <<"s1", "s2">> }

-----------------------------------------------------------------------------
\* SELECT COUNT(*) FROM cards WHERE set_id = ?
get_existing_card_count(tbl, sid) ==
    Cardinality({ r \in tbl : r.set_id = sid })

\* set_lookup.get(sid, {}).get("total", 0)
expected_total(lookup, sid) ==
    IF sid \in DOMAIN lookup THEN lookup[sid].total ELSE 0

\* set_info.get("name", sid)
set_name_of(lookup, sid) ==
    IF sid \in DOMAIN lookup THEN lookup[sid].name ELSE sid

\* resume_skip with the force flag ignored.
resume_skip_unforced(f, existing, expected) ==
    existing > 0 /\ (expected = 0 \/ existing >= expected)

\* resume_skip without the unknown-total case.
resume_skip_known_only(f, existing, expected) ==
    ~f /\ existing > 0 /\ expected > 0 /\ existing >= expected

\* The resume check of ingest_cards.
resume_skip(f, existing, expected) ==
    ~f /\ existing > 0 /\ (expected = 0 \/ existing >= expected)

\* json.dumps(prices) if prices["tcgplayer"] or prices["cardmarket"] else None
\* (<<>> is the SQL NULL).
prices_of(card) ==
    IF card.tcgplayer # NULL \/ card.cardmarket # NULL
    THEN <<card.tcgplayer, card.cardmarket>>
    ELSE <<>>

\* The parameter list of the INSERT: the row built from one API card.
card_row(card, sid, lookup) ==
    [ id       |-> card.id,
      name     |-> card.name,
      set_id   |-> sid,
      set_name |-> set_name_of(lookup, sid),
      raw_data |-> card,
      prices   |-> prices_of(card) ]

\* INSERT OR IGNORE: an existing row with the id is kept.
insert_or_ignore(tbl, row) ==
    IF \E r \in tbl : r.id = row.id THEN tbl ELSE tbl \cup { row }

\* INSERT OR REPLACE INTO cards, id being the PRIMARY KEY.
insert_or_replace(tbl, row) ==
    { r \in tbl : r.id # row.id } \cup { row }

\* for card in cards: conn.execute(INSERT OR REPLACE ...)
RECURSIVE upsert_cards(_, _, _, _)
upsert_cards(tbl, cs, sid, lookup) ==
    IF cs = <<>> THEN tbl
    ELSE upsert_cards(insert_or_replace(tbl, card_row(Head(cs), sid, lookup)),
                      Tail(cs), sid, lookup)

\* retry_again off by one: a fourth attempt.
retry_again_once_more(att) == att < MAX_RETRIES

\* Retry decision of fetch_cards_from_api's except branch.
retry_again(att) == att < MAX_RETRIES - 1

\* Loop exit of fetch_cards_from_api's pagination.
last_page(n_all, total_count, n_page) ==
    n_all >= total_count \/ n_page < page_size

-----------------------------------------------------------------------------
NoOut == [kind |-> "none", sid |-> "none", page |-> 0]

CardsIdle ==
    /\ cards = {}
    /\ set_lookup = << >>
    /\ set_ids = << >>
    /\ force = FALSE
    /\ i = 1
    /\ pc = "idle"
    /\ total_ingested = 0
    /\ skipped_count = 0
    /\ page = 1
    /\ attempt = 0
    /\ all_cards = << >>
    /\ fetched = {}
    /\ out = NoOut

CardsInit ==
    /\ cards = {}
    /\ set_lookup \in Lookups
    /\ set_ids = << >>
    /\ force = FALSE
    /\ i = 1
    /\ pc = "idle"
    /\ total_ingested = 0
    /\ skipped_count = 0
    /\ page = 1
    /\ attempt = 0
    /\ all_cards = << >>
    /\ fetched = {}
    /\ out = NoOut

\* ingest_cards is called: the target list, the counters.
StartIngestCards ==
    /\ pc = "idle"
    /\ \E q \in TargetLists, f \in BOOLEAN :
         /\ set_ids' = q
         /\ force' = f
    /\ i' = 1
    /\ pc' = "loop"
    /\ total_ingested' = 0
    /\ skipped_count' = 0
    /\ fetched' = {}
    /\ out' = NoOut
    /\ UNCHANGED <<cards, set_lookup, page, attempt, all_cards>>
    /\ UNCHANGED notCards

\* The resume check finds the set complete: skipped, continue.
SkipSet ==
    /\ pc = "loop"
    /\ i <= Len(set_ids)
    /\ resume_skip(force, get_existing_card_count(cards, set_ids[i]),
                   expected_total(set_lookup, set_ids[i]))
    /\ skipped_count' = skipped_count + 1
    /\ out' = [kind |-> "skipped", sid |-> set_ids[i], page |-> 0]
    /\ i' = i + 1
    /\ all_cards' = << >>
    /\ UNCHANGED <<cards, set_lookup, set_ids, force, pc, total_ingested,
                   page, attempt, fetched>>
    /\ UNCHANGED notCards

\* The resume check passes: fetch_cards_from_api(sid) is entered.
BeginFetch ==
    /\ pc = "loop"
    /\ i <= Len(set_ids)
    /\ ~resume_skip(force, get_existing_card_count(cards, set_ids[i]),
                    expected_total(set_lookup, set_ids[i]))
    /\ pc' = "fetch"
    /\ page' = 1
    /\ attempt' = 0
    /\ all_cards' = << >>
    /\ out' = [kind |-> "fetching", sid |-> set_ids[i], page |-> 0]
    /\ UNCHANGED <<cards, set_lookup, set_ids, force, i, total_ingested,
                   skipped_count, fetched>>
    /\ UNCHANGED notCards

\* A page request fails with an httpx.HTTPError or a timeout: retried after
\* the backoff sleep.
RequestRetried ==
    /\ pc = "fetch"
    /\ retry_again(attempt)
    /\ attempt' = attempt + 1
    /\ fetched' = fetched \cup { set_ids[i] }
    /\ UNCHANGED <<cards, set_lookup, set_ids, force, i, pc, total_ingested,
                   skipped_count, page, all_cards, out>>
    /\ UNCHANGED notCards

\* The last attempt of a page fails: the error is raised; ingest_cards catches
\* it, reports the set as failed and continues with the next set.
RequestExhausted ==
    /\ pc = "fetch"
    /\ ~retry_again(attempt)
    /\ fetched' = fetched \cup { set_ids[i] }
    /\ out' = [kind |-> "failed", sid |-> set_ids[i], page |-> page]
    /\ i' = i + 1
    /\ pc' = "loop"
    /\ page' = 1
    /\ attempt' = 0
    /\ all_cards' = << >>
    /\ UNCHANGED <<cards, set_lookup, set_ids, force, total_ingested,
                   skipped_count>>
    /\ UNCHANGED notCards

\* A page request succeeds and more pages follow.
PageFetched ==
    /\ pc = "fetch"
    /\ page < MaxPages
    /\ \E p \in ApiPages, tc \in TotalCounts :
         /\ ~last_page(Len(all_cards) + Len(p), tc, Len(p))
         /\ all_cards' = all_cards \o p
    /\ page' = page + 1
    /\ attempt' = 0
    /\ fetched' = fetched \cup { set_ids[i] }
    /\ UNCHANGED <<cards, set_lookup, set_ids, force, i, pc, total_ingested,
                   skipped_count, out>>
    /\ UNCHANGED notCards

\* A page request succeeds and it was the last page: fetch_cards_from_api
\* returns, every card is upserted, the total is added up.
SetIngested ==
    /\ pc = "fetch"
    /\ \E p \in ApiPages, tc \in TotalCounts :
         /\ last_page(Len(all_cards) + Len(p), tc, Len(p))
         /\ all_cards' = all_cards \o p
    /\ cards' = upsert_cards(cards, all_cards', set_ids[i], set_lookup)
    /\ total_ingested' = total_ingested + Len(all_cards')
    /\ fetched' = fetched \cup { set_ids[i] }
    /\ out' = [kind |-> "cards", sid |-> set_ids[i], page |-> page]
    /\ i' = i + 1
    /\ pc' = "loop"
    /\ page' = 1
    /\ attempt' = 0
    /\ UNCHANGED <<set_lookup, set_ids, force, skipped_count>>
    /\ UNCHANGED notCards

\* The loop is over: the summary is printed and total_ingested returned.
FinishIngestCards ==
    /\ pc = "loop"
    /\ i > Len(set_ids)
    /\ pc' = "idle"
    /\ set_ids' = << >>
    /\ force' = FALSE
    /\ i' = 1
    /\ total_ingested' = 0
    /\ skipped_count' = 0
    /\ fetched' = {}
    /\ out' = NoOut
    /\ all_cards' = << >>
    /\ UNCHANGED <<cards, set_lookup, page, attempt>>
    /\ UNCHANGED notCards

CardsNext ==
    \/ StartIngestCards
    \/ SkipSet
    \/ BeginFetch
    \/ RequestRetried
    \/ RequestExhausted
    \/ PageFetched
    \/ SetIngested
    \/ FinishIngestCards


-----------------------------------------------------------------------------
\* Claims about ingest_cards (specification SpecCards).

\* C1: in a non-forced run, a set whose stored card count is at least 1 and
\* reaches its expected total (or whose expected total is unknown or zero)
\* is skipped: the step issues no page request for it, adds exactly one to
\* skipped_count, leaves total_ingested and the table alone and moves on.
C1_ResumeSkipsCompleteSet ==
    [][ ( /\ pc = "loop"
          /\ i <= Len(set_ids)
          /\ ~force
          /\ LET sid == set_ids[i]
                 n   == Cardinality({ r \in cards : r.set_id = sid })
                 e   == IF sid \in DOMAIN set_lookup
                        THEN set_lookup[sid].total ELSE 0
             IN  n >= 1 /\ (e = 0 \/ n >= e) )
        => ( /\ skipped_count' = skipped_count + 1
             /\ total_ingested' = total_ingested
             /\ fetched' = fetched
             /\ set_ids[i] \notin fetched'
             /\ cards' = cards
             /\ pc' = "loop"
             /\ i' = i + 1 ) ]_vars

\* C1 witness: a second, non-forced run over one set that an earlier run
\* ingested: skipped once, nothing fetched, total 0.
C1_Witness ==
    /\ out.kind = "skipped"
    /\ ~force
    /\ Len(set_ids) = 1
    /\ skipped_count = 1
    /\ total_ingested = 0
    /\ fetched = {}
    /\ cards # {}

\* C2: in a forced run every set the loop has passed had at least one page
\* request issued for it and none was skipped, whatever the table holds and
\* whatever the earlier sets' fetches did; at the end of the loop that is
\* every set of the target list.
C2_ForceFetchesEverySet ==
    (pc \in {"loop", "fetch"} /\ force) =>
        /\ skipped_count = 0
        /\ \A k \in 1..Len(set_ids) : k < i => set_ids[k] \in fetched

\* C2 witness: a forced run over two sets is over, the second set failed and
\* the table held enough cards of it for a resume skip.
C2_Witness ==
    /\ pc = "loop"
    /\ force
    /\ Len(set_ids) = 2
    /\ i = 3
    /\ out.kind = "failed"
    /\ fetched = {"s1", "s2"}
    /\ Cardinality({ r \in cards : r.set_id = "s2" }) >= 2

\* C3: a page is requested at most 3 times; while pages are being fetched
\* the table is not written; when the third attempt of a page fails the set
\* is reported failed, the table is exactly as before (no row of this set
\* written, every earlier row kept), nothing is added to the total and the
\* loop goes on to the next set.
C3_RetryThenAbandonSet ==
    /\ [](pc = "fetch" => attempt + 1 <= 3)
    /\ [][ /\ (pc = "fetch" /\ pc' = "fetch") => cards' = cards
           /\ (pc = "fetch" /\ out'.kind = "failed") =>
                /\ attempt + 1 = 3
                /\ cards' = cards
                /\ total_ingested' = total_ingested
                /\ pc' = "loop"
                /\ i' = i + 1
           /\ (pc = "fetch" /\ attempt + 1 = 3 /\ cards' # cards) =>
                out'.kind = "cards" ]_vars

\* C3 witness: the first set was ingested, the second failed on its second
\* page after a first page was fetched; the first set's rows are there.
C3_Witness ==
    /\ out.kind = "failed"
    /\ out.sid = "s2"
    /\ out.page = 2
    /\ total_ingested > 0
    /\ \E r \in cards : r.set_id = "s1"
    /\ ~ \E r \in cards : r.set_id = "s2"

\* C7: the id is unique in the cards table, and when a set's cards are
\* written, each id of the batch has exactly one row, built from the last
\* card of the batch with that id (whatever row the table or the batch held
\* for it before), and the rows of every other id are unchanged.
C7_UpsertReplacesRow ==
    /\ [](\A r1, r2 \in cards : r1.id = r2.id => r1 = r2)
    /\ [][ (pc = "fetch" /\ out'.kind = "cards") =>
             \A c \in CardIds :
               LET at == { k \in 1..Len(all_cards') : all_cards'[k].id = c }
               IN  IF at = {}
                   THEN { r \in cards' : r.id = c } = { r \in cards : r.id = c }
                   ELSE LET last == CHOOSE k \in at : \A m \in at : m <= k
                        IN  { r \in cards' : r.id = c } =
                              { card_row(all_cards'[last], set_ids[i], set_lookup) }
         ]_vars

\* C7 witness: one batch held an id twice with different names, and a row of
\* that id from another set was in the table before; the row is the second.
C7_Witness ==
    /\ out.kind = "cards"
    /\ out.sid = "s2"
    /\ \E a, b \in 1..Len(all_cards) :
         /\ a < b
         /\ all_cards[a].id = all_cards[b].id
         /\ all_cards[a].name # all_cards[b].name
         /\ \A r \in cards : r.id = all_cards[b].id =>
              (r.name = all_cards[b].name /\ r.set_id = "s2")
    /\ total_ingested > Len(all_cards)

-----------------------------------------------------------------------------
\* export_parquet.py

\* The five safe_export calls of export(), in order. filtered: the projection
\* ends in WHERE NOT is_custom; the output file is named after the label.
Exports ==
    << [table |-> "tcg_cards",        filtered |-> TRUE ],
       [table |-> "sets",             filtered |-> FALSE],
       [table |-> "pokemon_metadata", filtered |-> FALSE],
       [table |-> "pocket_sets",      filtered |-> FALSE],
       [table |-> "pocket_cards",     filtered |-> TRUE ] >>

Tables == { Exports[k].table : k \in 1..Len(Exports) }

\* A table of the database: missing, or rows of which `custom` have is_custom
\* set (only the two card tables have the column).
TableStates(e) ==
    { [exists |-> FALSE, plain |-> 0, custom |-> 0] } \cup
    { [exists |-> TRUE, plain |-> a, custom |-> b] :
        a \in 0..MaxRows, b \in 0..(IF e.filtered THEN MaxRows ELSE 0) }

NoFile  == [kind |-> "none", rows |-> 0]
\* A file an earlier export left in the output directory.
OldFile == [kind |-> "old", rows |-> 0]

NoReport == [kind |-> "none", count |-> 0]

\* SELECT COUNT(*) FROM {table}
count_rows(t) == t.plain + t.custom

\* The rows the projection query of an export selects.
projection_rows(e, t) ==
    IF e.filtered THEN t.plain ELSE t.plain + t.custom

\* the count test that never skips (the earlier exporter's overwrite).
never_empty(count) == FALSE

\* if count == 0
is_empty(count) == count = 0

\* the exception leaves export(): no later call is made.
after_failure_abort(k) == Len(Exports) + 1

\* except Exception: the failure is printed and export() makes its next call.
after_failure(k) == k + 1

ExportIdle ==
    /\ db = [t \in Tables |-> [exists |-> FALSE, plain |-> 0, custom |-> 0]]
    /\ files = [t \in Tables |-> NoFile]
    /\ report = [t \in Tables |-> NoReport]
    /\ xi = Len(Exports) + 1

ExportInit ==
    /\ db \in { d \in [Tables -> UNION { TableStates(Exports[k]) : k \in 1..Len(Exports) }] :
                  \A k \in 1..Len(Exports) :
                     d[Exports[k].table] \in TableStates(Exports[k]) }
    /\ \E f \in {NoFile, OldFile} : files = [t \in Tables |-> f]
    /\ report = [t \in Tables |-> NoReport]
    /\ xi = 1

\* One safe_export call, from the count to the printed line.
SafeExport ==
    /\ xi <= Len(Exports)
    /\ LET e == Exports[xi]
           t == e.table
       IN
       \/ \* the table is missing: the COUNT raises, caught and printed
          /\ ~db[t].exists
          /\ report' = [report EXCEPT ![t] = [kind |-> "error", count |-> 0]]
          /\ xi' = after_failure(xi)
          /\ UNCHANGED files
       \/ \* the table is empty: the skip notice, nothing is written
          /\ db[t].exists
          /\ is_empty(count_rows(db[t]))
          /\ report' = [report EXCEPT ![t] = [kind |-> "empty", count |-> 0]]
          /\ xi' = xi + 1
          /\ UNCHANGED files
       \/ \* COPY (query) TO output_path succeeds: size and count are printed
          /\ db[t].exists
          /\ ~is_empty(count_rows(db[t]))
          /\ files' = [files EXCEPT
                         ![t] = [kind |-> "written",
                                 rows |-> projection_rows(e, db[t])]]
          /\ report' = [report EXCEPT
                          ![t] = [kind |-> "written",
                                  count |-> count_rows(db[t])]]
          /\ xi' = xi + 1
       \/ \* the projection fails: caught and printed, the file is not opened
          /\ db[t].exists
          /\ ~is_empty(count_rows(db[t]))
          /\ report' = [report EXCEPT ![t] = [kind |-> "error", count |-> 0]]
          /\ xi' = after_failure(xi)
          /\ UNCHANGED files
       \/ \* the write fails part-way: caught and printed, a partial file
          /\ db[t].exists
          /\ ~is_empty(count_rows(db[t]))
          /\ files' = [files EXCEPT ![t] = [kind |-> "partial", rows |-> 0]]
          /\ report' = [report EXCEPT ![t] = [kind |-> "error", count |-> 0]]
          /\ xi' = after_failure(xi)
    /\ UNCHANGED <<db>>
    /\ UNCHANGED notExport

ExportNext == SafeExport

\* The table export()'s next call is for.
NextTable == Exports[xi].table

\* C4: an export of a table that exists and has zero rows writes nothing (no
\* output file changes, so a file left by an earlier export stays as it is)
\* and prints the skip notice; this at each of the five calls, whatever the
\* calls before it did.
C4_EmptyTableLeavesFile ==
    [][ ( /\ xi <= Len(Exports)
          /\ db[NextTable].exists
          /\ db[NextTable].plain + db[NextTable].custom = 0 )
        => ( /\ files' = files
             /\ report'[NextTable].kind = "empty"
             /\ xi' = xi + 1 ) ]_vars

\* C4 witness: the third table was empty and skipped, its old file is still
\* there, after the first export wrote a file and the second failed.
C4_Witness ==
    /\ xi > 3
    /\ report["pokemon_metadata"].kind = "empty"
    /\ files["pokemon_metadata"] = OldFile
    /\ report["tcg_cards"].kind = "written"
    /\ report["sets"].kind = "error"

\* C5: whenever safe_export reports a table as written with its count of
\* rows, the output file was written and holds exactly that many rows (the
\* row count of the source table).
C5_FileRowsEqualSourceCount ==
    \A t \in Tables :
        report[t].kind = "written" =>
            /\ files[t].kind = "written"
            /\ files[t].rows = report[t].count
            /\ report[t].count = db[t].plain + db[t].custom

\* C6: export() makes its five calls in order, each printing a line for its
\* table: the tables before position xi are exactly those reported; a call,
\* failed or not, changes the file and the line of its own table only, and
\* the next call follows it.
C6_ExportsIndependent ==
    /\ [](\A k \in 1..Len(Exports) :
            (report[Exports[k].table].kind # "none") <=> (k < xi))
    /\ [][ xi' # xi =>
             /\ xi' = xi + 1
             /\ \A t \in Tables \ {NextTable} :
                  files'[t] = files[t] /\ report'[t] = report[t]
             /\ report'[NextTable].kind # "none" ]_vars

\* C6 witness: all five calls were made; the first table was missing, the
\* write of the second failed part-way, the last three were written over the
\* old files, and the first table's old file is untouched.
C6_Witness ==
    /\ xi = Len(Exports) + 1
    /\ ~db["tcg_cards"].exists
    /\ report["tcg_cards"].kind = "error"
    /\ files["tcg_cards"] = OldFile
    /\ files["sets"].kind = "partial"
    /\ report["sets"].kind = "error"
    /\ \A t \in {"pokemon_metadata", "pocket_sets", "pocket_cards"} :
         report[t].kind = "written" /\ files[t].kind = "written"

-----------------------------------------------------------------------------
\* get_region_generation

\* (max_num, gen, region), in the order of the source.
REGION_GEN_RANGES ==
    << <<151, 1, "Kanto">>,
       <<251, 2, "Johto">>,
       <<386, 3, "Hoenn">>,
       <<493, 4, "Sinnoh">>,
       <<649, 5, "Unova">>,
       <<721, 6, "Kalos">>,
       <<809, 7, "Alola">>,
       <<905, 8, "Galar">>,
       <<1025, 9, "Paldea">> >>

\* return None, None (gen 0 stands for the None generation).
NoRegion == [gen |-> 0, region |-> NULL]

\* the scan with < for <=: a threshold itself falls into the next range.
RECURSIVE scan_ranges_strict(_, _)
scan_ranges_strict(n, k) ==
    IF k > Len(REGION_GEN_RANGES) THEN NoRegion
    ELSE IF n < REGION_GEN_RANGES[k][1]
         THEN [gen |-> REGION_GEN_RANGES[k][2], region |-> REGION_GEN_RANGES[k][3]]
         ELSE scan_ranges_strict(n, k + 1)

get_region_generation_strict(n) == scan_ranges_strict(n, 1)

\* for max_num, gen, region in REGION_GEN_RANGES, from entry k on.
RECURSIVE scan_ranges(_, _)
scan_ranges(n, k) ==
    IF k > Len(REGION_GEN_RANGES) THEN NoRegion
    ELSE IF n <= REGION_GEN_RANGES[k][1]
         THEN [gen |-> REGION_GEN_RANGES[k][2], region |-> REGION_GEN_RANGES[k][3]]
         ELSE scan_ranges(n, k + 1)

get_region_generation(n) == scan_ranges(n, 1)

RegionIdle ==
    /\ pokedex_num = 0
    /\ region_result = << >>

RegionInit ==
    /\ pokedex_num \in 1..MaxPokedex
    /\ region_result = << >>

\* get_region_generation(pokedex_num) is called and returns.
CallRegionGeneration ==
    /\ region_result = << >>
    /\ region_result' = << get_region_generation(pokedex_num) >>
    /\ UNCHANGED pokedex_num
    /\ UNCHANGED notRegion

RegionNext == CallRegionGeneration

\* C10: for every species number n in 1..1025 the result is the generation
\* and region of the first entry of the table whose upper bound is >= n, that
\* is of the range n lies in (1..151 Kanto, 152..251 Johto, 252..386 Hoenn,
\* 387..493 Sinnoh, 494..649 Unova, 650..721 Kalos, 722..809 Alola, 810..905
\* Galar, 906..1025 Paldea); for every n > 1025 it is the absent result.
C10_RegionByRange ==
    region_result # << >> =>
        LET n == pokedex_num
            r == region_result[1]
            first == { k \in 1..Len(REGION_GEN_RANGES) :
                         /\ REGION_GEN_RANGES[k][1] >= n
                         /\ \A j \in 1..(k - 1) : REGION_GEN_RANGES[j][1] < n }
        IN  /\ (n >= 1 /\ n <= 1025) =>
                /\ \E k \in first : r.gen = REGION_GEN_RANGES[k][2]
                                    /\ r.region = REGION_GEN_RANGES[k][3]
                /\ r = CASE n <= 151 -> [gen |-> 1, region |-> "Kanto"]
                         [] n <= 251 -> [gen |-> 2, region |-> "Johto"]
                         [] n <= 386 -> [gen |-> 3, region |-> "Hoenn"]
                         [] n <= 493 -> [gen |-> 4, region |-> "Sinnoh"]
                         [] n <= 649 -> [gen |-> 5, region |-> "Unova"]
                         [] n <= 721 -> [gen |-> 6, region |-> "Kalos"]
                         [] n <= 809 -> [gen |-> 7, region |-> "Alola"]
                         [] n <= 905 -> [gen |-> 8, region |-> "Galar"]
                         [] OTHER    -> [gen |-> 9, region |-> "Paldea"]
            /\ n > 1025 => (r.gen = 0 /\ r.region = NULL)

\* C10 witness: the lookup returned for 152, the first number of Johto.
C10_Witness ==
    /\ pokedex_num = 152
    /\ region_result = << [gen |-> 2, region |-> "Johto"] >>

-----------------------------------------------------------------------------
\* ingest_pokemon_metadata, fetch_evolution_chain

\* The species of the listing, in listing order.
Species ==
    << [id |-> 1,    name |-> "bulbasaur"],
       [id |-> 151,  name |-> "mew"],
       [id |-> 152,  name |-> "chikorita"],
       [id |-> 1026, name |-> "newmon"] >>

Listing ==
    SubSeq(Species, 1, IF NumSpecies < Len(Species) THEN NumSpecies ELSE Len(Species))

ChainUrls == {"chain/1", "chain/2"}

Leaf(n) == [name |-> n, evolves_to |-> << >>]

\* The chain trees the API serves: one species alone, a line of three, a root
\* with two direct evolutions that each evolve once more.
ChainTrees ==
    { Leaf("mew"),
      [name |-> "bulbasaur",
       evolves_to |-> << [name |-> "ivysaur",
                          evolves_to |-> << Leaf("venusaur") >>] >>],
      [name |-> "root",
       evolves_to |-> << [name |-> "evo1", evolves_to |-> << Leaf("evo1-evo") >>],
                         [name |-> "evo2", evolves_to |-> << Leaf("evo2-evo") >>] >>] }

\* What a GET of a chain URL yields: << >> a failure, <<tree>> its chain.
ChainResponses == { << >> } \cup { <<t>> : t \in ChainTrees }

\* walk_chain: the node's name, then each of its evolutions in order.
RECURSIVE walk_chain(_), walk_evolutions(_)
walk_chain(node) == <<node.name>> \o walk_evolutions(node.evolves_to)
walk_evolutions(evos) ==
    IF evos = << >> THEN << >>
    ELSE walk_chain(Head(evos)) \o walk_evolutions(Tail(evos))

\* a level-order flattening: the nodes of the queue, each followed later by
\* its evolutions.
RECURSIVE walk_level_order(_)
walk_level_order(queue) ==
    IF queue = << >> THEN << >>
    ELSE <<Head(queue).name>>
           \o walk_level_order(Tail(queue) \o Head(queue).evolves_to)

\* fetch_evolution_chain flattening level by level.
fetch_evolution_chain_level_order(resp) ==
    IF resp = << >> THEN << >> ELSE walk_level_order(<<resp[1]>>)

\* fetch_evolution_chain: the flattened chain, [] on any failure.
fetch_evolution_chain(resp) ==
    IF resp = << >> THEN << >> ELSE walk_chain(resp[1])

\* a cache test that takes a cached empty list for a miss.
cache_miss_if_empty(url, cache) ==
    url \notin DOMAIN cache \/ cache[url] = << >>

\* if evo_chain_url not in chain_cache
cache_miss(url, cache) == url \notin DOMAIN cache

\* chain_cache[evo_chain_url] = ...
cache_store(cache, url, names) ==
    [u \in DOMAIN cache \cup {url} |-> IF u = url THEN names ELSE cache[u]]

\* The parameter list of INSERT OR REPLACE INTO pokemon_metadata (of the
\* species' own attributes only the name is kept).
species_row(num, name, evo_chain) ==
    [ pokedex_number  |-> num,
      name            |-> name,
      generation      |-> get_region_generation(num).gen,
      region          |-> get_region_generation(num).region,
      evolution_chain |-> evo_chain ]

\* The table as an earlier complete run left it.
FullMetadata ==
    { species_row(Listing[k].id, Listing[k].name, <<Listing[k].name>>) :
        k \in 1..Len(Listing) }

PokeIdle ==
    /\ pokemon_metadata = {}
    /\ all_species = << >>
    /\ sp = 1
    /\ ppc = "idle"
    /\ chain_cache = << >>
    /\ ingested = 0
    /\ chain_fetches = [u \in ChainUrls |-> 0]
    /\ chain_urls = {}

PokeInit ==
    /\ pokemon_metadata \in { {}, FullMetadata }
    /\ all_species = << >>
    /\ sp = 1
    /\ ppc = "idle"
    /\ chain_cache = << >>
    /\ ingested = 0
    /\ chain_fetches = [u \in ChainUrls |-> 0]
    /\ chain_urls = {}

\* ingest_pokemon_metadata up to its species loop: the count request, the
\* resume check, the listing.
StartPokemonMetadata ==
    /\ ppc = "idle"
    /\ \E f \in BOOLEAN, requests_ok \in BOOLEAN :
         IF ~requests_ok
         THEN \* the count or a listing request raises: the run ends
              /\ ppc' = "aborted"
              /\ UNCHANGED <<all_species, chain_cache>>
         ELSE IF ~f /\ Cardinality(pokemon_metadata) >= Len(Listing)
         THEN \* already have all species
              /\ ppc' = "skipped"
              /\ UNCHANGED <<all_species, chain_cache>>
         ELSE /\ ppc' = "loop"
              /\ all_species' = Listing
              /\ chain_cache' = << >>
    /\ UNCHANGED <<pokemon_metadata, sp, ingested, chain_fetches, chain_urls>>
    /\ UNCHANGED notPoke

\* One pass of the species loop: the detail request, the chain (cached or
\* fetched), the upsert.
ProcessSpecies ==
    /\ ppc = "loop"
    /\ sp <= Len(all_species)
    /\ \E detail_ok \in BOOLEAN, url \in ChainUrls \cup {""},
          resp \in ChainResponses :
         IF ~detail_ok
         THEN \* the detail request raises: warned, next species
              /\ url = "" /\ resp = << >>
              /\ UNCHANGED <<pokemon_metadata, chain_cache, ingested,
                             chain_fetches, chain_urls>>
         ELSE LET num   == all_species[sp].id
                  name  == all_species[sp].name
                  fetch == url # "" /\ cache_miss(url, chain_cache)
                  names == fetch_evolution_chain(resp)
                  evo_chain == IF url = "" THEN <<name>>
                               ELSE IF fetch THEN names
                               ELSE chain_cache[url]
              IN  /\ ~fetch => resp = << >>
                  /\ chain_cache' = IF fetch
                                    THEN cache_store(chain_cache, url, names)
                                    ELSE chain_cache
                  /\ chain_fetches' = IF fetch
                                      THEN [chain_fetches EXCEPT ![url] = @ + 1]
                                      ELSE chain_fetches
                  /\ chain_urls' = IF url = "" THEN chain_urls
                                   ELSE chain_urls \cup {[num |-> num, url |-> url]}
                  /\ pokemon_metadata' =
                       { r \in pokemon_metadata : r.pokedex_number # num }
                         \cup { species_row(num, name, evo_chain) }
                  /\ ingested' = ingested + 1
    /\ sp' = sp + 1
    /\ UNCHANGED <<all_species, ppc>>
    /\ UNCHANGED notPoke

\* The loop is over: ingested is returned.
FinishPokemonMetadata ==
    /\ ppc = "loop"
    /\ sp > Len(all_species)
    /\ ppc' = "done"
    /\ UNCHANGED <<pokemon_metadata, all_species, sp, chain_cache, ingested,
                   chain_fetches, chain_urls>>
    /\ UNCHANGED notPoke

PokeNext ==
    \/ StartPokemonMetadata
    \/ ProcessSpecies
    \/ FinishPokemonMetadata

\* C8: in one run, a chain URL that the detail of one or more stored species
\* carried was fetched exactly once, also when that fetch failed (and the
\* cached list is empty), and all those species are stored with the same
\* chain list, the cached one.
C8_OneFetchPerChainUrl ==
    \A u \in ChainUrls :
        LET users == { c \in chain_urls : c.url = u }
        IN  /\ chain_fetches[u] <= 1
            /\ users # {} =>
                 /\ chain_fetches[u] = 1
                 /\ u \in DOMAIN chain_cache
                 /\ \A a \in users :
                      \E r \in pokemon_metadata :
                         /\ r.pokedex_number = a.num
                         /\ r.evolution_chain = chain_cache[u]
                 /\ \A a, b \in users : \A ra, rb \in pokemon_metadata :
                      (ra.pokedex_number = a.num /\ rb.pokedex_number = b.num)
                        => ra.evolution_chain = rb.evolution_chain

\* C8 witness: the run is over, two species shared a chain URL whose one
\* fetch failed, another URL was fetched and flattened.
C8_Witness ==
    /\ ppc = "done"
    /\ \E u \in ChainUrls :
         /\ Cardinality({ c \in chain_urls : c.url = u }) >= 2
         /\ chain_fetches[u] = 1
         /\ chain_cache[u] = << >>

-----------------------------------------------------------------------------
\* run_ingestion

\* the species stage run whatever skip_pokemon says.
run_pokemon_stage_always(skip_pokemon) == TRUE

\* if not skip_pokemon
run_pokemon_stage(skip_pokemon) == ~skip_pokemon

\* ingest_cards(set_lookup, set_id=set_id, force=force)
cards_call_args(lookup, args) ==
    [lookup |-> lookup, set_id |-> args.set_id, force |-> args.force]

RunArgs ==
    [set_id : {NULL} \cup SetIds, skip_pokemon : BOOLEAN, force : BOOLEAN]

RunIdle ==
    /\ rpc = "idle"
    /\ run_args = [set_id |-> NULL, skip_pokemon |-> FALSE, force |-> FALSE]
    /\ run_lookup = << >>
    /\ run_result = << >>
    /\ stages = << >>
    /\ sets_returned = << >>
    /\ cards_call = << >>

RunInit ==
    /\ rpc = "called"
    /\ run_args \in RunArgs
    /\ run_lookup = << >>
    /\ run_result = << >>
    /\ stages = << >>
    /\ sets_returned = << >>
    /\ cards_call = << >>

\* initialize_database(); a failure ends the run.
RunInitializeDatabase ==
    /\ rpc = "called"
    /\ stages' = Append(stages, "initialize_database")
    /\ \E ok \in BOOLEAN : rpc' = IF ok THEN "initialized" ELSE "aborted"
    /\ UNCHANGED <<run_args, run_lookup, run_result, sets_returned, cards_call>>
    /\ UNCHANGED notRun

\* if not skip_pokemon: ingest_pokemon_metadata(force=force); its count and
\* listing requests may raise, which ends the run.
RunPokemonMetadata ==
    /\ rpc = "initialized"
    /\ run_pokemon_stage(run_args.skip_pokemon)
    /\ stages' = Append(stages, "ingest_pokemon_metadata")
    /\ \E ok \in BOOLEAN : rpc' = IF ok THEN "metadata" ELSE "aborted"
    /\ UNCHANGED <<run_args, run_lookup, run_result, sets_returned, cards_call>>
    /\ UNCHANGED notRun

\* set_lookup = ingest_sets(); the request may raise, which ends the run.
RunIngestSets ==
    /\ \/ rpc = "metadata"
       \/ rpc = "initialized" /\ ~run_pokemon_stage(run_args.skip_pokemon)
    /\ stages' = Append(stages, "ingest_sets")
    /\ \/ /\ rpc' = "aborted"
          /\ UNCHANGED <<run_lookup, sets_returned>>
       \/ /\ rpc' = "sets"
          /\ \E l \in Lookups :
               /\ sets_returned' = <<l>>
               /\ run_lookup' = <<l>>
    /\ UNCHANGED <<run_args, run_result, cards_call>>
    /\ UNCHANGED notRun

\* total = ingest_cards(set_lookup, set_id=set_id, force=force); return total
\* (the set listing request of ingest_cards may raise).
RunIngestCards ==
    /\ rpc = "sets"
    /\ stages' = Append(stages, "ingest_cards")
    /\ \/ /\ rpc' = "aborted"
          /\ cards_call' = << [args |-> cards_call_args(run_lookup[1], run_args),
                               total |-> 0] >>
          /\ UNCHANGED run_result
       \/ /\ rpc' = "returned"
          /\ \E t \in 0..MaxTotal :
               /\ cards_call' = << [args |-> cards_call_args(run_lookup[1], run_args),
                                    total |-> t] >>
               /\ run_result' = <<t>>
    /\ UNCHANGED <<run_args, run_lookup, sets_returned>>
    /\ UNCHANGED notRun

RunNext ==
    \/ RunInitializeDatabase
    \/ RunPokemonMetadata
    \/ RunIngestSets
    \/ RunIngestCards

\* The calls of a complete run, in order, for these arguments.
StageOrder(args) ==
    <<"initialize_database">>
      \o (IF args.skip_pokemon THEN << >> ELSE <<"ingest_pokemon_metadata">>)
      \o <<"ingest_sets", "ingest_cards">>

\* C9: the calls run_ingestion has made are at every moment a prefix of:
\* initialize_database, then ingest_pokemon_metadata if and only if
\* skip_pokemon is false, then ingest_sets, then ingest_cards; a run that
\* returns made all of them (ingest_sets also with skip_pokemon or a single
\* set), its ingest_cards got the lookup its ingest_sets returned together
\* with set_id and force, and the value returned is ingest_cards' total.
C9_StageOrder ==
    /\ Len(stages) <= Len(StageOrder(run_args))
    /\ stages = SubSeq(StageOrder(run_args), 1, Len(stages))
    /\ cards_call # << >> =>
         /\ sets_returned # << >>
         /\ cards_call[1].args.lookup = sets_returned[1]
         /\ cards_call[1].args.set_id = run_args.set_id
         /\ cards_call[1].args.force = run_args.force
    /\ rpc = "returned" =>
         /\ stages = StageOrder(run_args)
         /\ cards_call # << >>
         /\ run_result = << cards_call[1].total >>

\* C9 witness: a run with skip_pokemon and a single set returned a total of
\* 2 after the set catalog was fetched.
C9_Witness ==
    /\ rpc = "returned"
    /\ run_args.skip_pokemon
    /\ run_args.set_id = "s1"
    /\ stages = <<"initialize_database", "ingest_sets", "ingest_cards">>
    /\ run_result = <<2>>
    /\ DOMAIN sets_returned[1] = {"s1"}

-----------------------------------------------------------------------------
\* fetch_evolution_chain on its own, over generated chain trees

\* The species names of a generated tree, by the place of the node: the
\* root, its a-th evolution, the b-th evolution of that.
EvoNames == << "evo1", "evo2", "evo3", "evo4" >>
EvoEvoNames ==
    << << "evo1-evo1", "evo1-evo2", "evo1-evo3", "evo1-evo4" >>,
       << "evo2-evo1", "evo2-evo2", "evo2-evo3", "evo2-evo4" >>,
       << "evo3-evo1", "evo3-evo2", "evo3-evo3", "evo3-evo4" >>,
       << "evo4-evo1", "evo4-evo2", "evo4-evo3", "evo4-evo4" >> >>

\* The tree whose root has Len(ks) evolutions, the a-th with ks[a] of its own.
TreeOf(ks) ==
    [ name |-> "root",
      evolves_to |->
        [ a \in 1..Len(ks) |->
            [ name |-> EvoNames[a],
              evolves_to |-> [ b \in 1..ks[a] |-> Leaf(EvoEvoNames[a][b]) ] ] ] ]

GeneratedTrees ==
    { TreeOf(ks) : ks \in UNION { [1..n -> 0..MaxEvolutions] : n \in 0..MaxEvolutions } }

\* The responses fetch_evolution_chain is run on.
ChainInputs ==
    { << >> } \cup { <<t>> : t \in ChainTrees \cup GeneratedTrees }

ChainIdle ==
    /\ chain_data = << >>
    /\ chain_names = << >>

ChainInit ==
    /\ chain_data \in ChainInputs
    /\ chain_names = << >>

\* fetch_evolution_chain(chain_url) is called and returns.
CallFetchEvolutionChain ==
    /\ chain_names = << >>
    /\ chain_names' = << fetch_evolution_chain(chain_data) >>
    /\ UNCHANGED chain_data
    /\ UNCHANGED notChain

ChainNext == CallFetchEvolutionChain

\* A place in a tree: the indices to follow from the root, << >> the root.
Places ==
    { << >> } \cup { <<a>> : a \in 1..(MaxEvolutions + 1) }
              \cup { <<a, b>> : a, b \in 1..(MaxEvolutions + 1) }

RECURSIVE HasPlace(_, _)
HasPlace(t, p) ==
    \/ p = << >>
    \/ /\ Head(p) <= Len(t.evolves_to)
       /\ HasPlace(t.evolves_to[Head(p)], Tail(p))

RECURSIVE NodeAt(_, _)
NodeAt(t, p) ==
    IF p = << >> THEN t ELSE NodeAt(t.evolves_to[Head(p)], Tail(p))

\* q is an ancestor of p.
Ancestor(q, p) ==
    Len(q) < Len(p) /\ SubSeq(p, 1, Len(q)) = q

\* q lies in the subtree of an earlier sibling of the subtree p lies in.
EarlierSibling(q, p) ==
    \E k \in 1..Len(q) :
        /\ k <= Len(p)
        /\ SubSeq(q, 1, k - 1) = SubSeq(p, 1, k - 1)
        /\ q[k] < p[k]

\* C11: for every chain tree the list fetch_evolution_chain returns has one
\* entry per node of the tree, and the entry of a node comes after exactly
\* the entries of its ancestors and of the nodes in the subtrees of earlier
\* siblings (of itself or of an ancestor): every node before all of its
\* descendants, sibling subtrees in listing order. A name that one node
\* only carries is in the list exactly once; the root with two evolutions
\* that each evolve once flattens to root, evo1, evo1-evo, evo2, evo2-evo.
C11_PreOrderFlattening ==
    (chain_names # << >> /\ chain_data # << >>) =>
        LET t  == chain_data[1]
            r  == chain_names[1]
            ps == { p \in Places : HasPlace(t, p) }
            pos(p) == 1 + Cardinality({ q \in ps :
                                          Ancestor(q, p) \/ EarlierSibling(q, p) })
        IN  /\ Len(r) = Cardinality(ps)
            /\ \A p \in ps : r[pos(p)] = NodeAt(t, p).name
            /\ \A p \in ps :
                 (\A q \in ps \ {p} : NodeAt(t, q).name # NodeAt(t, p).name)
                   => Cardinality({ k \in 1..Len(r) : r[k] = NodeAt(t, p).name }) = 1
            /\ t = [name |-> "root",
                    evolves_to |->
                      << [name |-> "evo1", evolves_to |-> << Leaf("evo1-evo") >>],
                         [name |-> "evo2", evolves_to |-> << Leaf("evo2-evo") >>] >>]
                 => r = <<"root", "evo1", "evo1-evo", "evo2", "evo2-evo">>

\* C11 witness: the tree of the example was flattened, five names returned.
C11_Witness ==
    /\ chain_data # << >>
    /\ chain_data[1].name = "root"
    /\ Len(chain_data[1].evolves_to) = 2
    /\ \A a \in 1..2 : Len(chain_data[1].evolves_to[a].evolves_to) = 1
    /\ chain_data[1].evolves_to[1].evolves_to[1].name = "evo1-evo"
    /\ chain_names # << >>
    /\ Len(chain_names[1]) = 5

-----------------------------------------------------------------------------
\* Specifications, one per subsystem; the others stay idle.

InitCards == CardsInit /\ ExportIdle /\ RegionIdle /\ PokeIdle /\ RunIdle /\ ChainIdle
SpecCards == InitCards /\ [][CardsNext]_vars

InitExport == ExportInit /\ CardsIdle /\ RegionIdle /\ PokeIdle /\ RunIdle /\ ChainIdle
SpecExport == InitExport /\ [][ExportNext]_vars

InitRegion == RegionInit /\ CardsIdle /\ ExportIdle /\ PokeIdle /\ RunIdle /\ ChainIdle
SpecRegion == InitRegion /\ [][RegionNext]_vars

InitPokemon == PokeInit /\ CardsIdle /\ ExportIdle /\ RegionIdle /\ RunIdle /\ ChainIdle
SpecPokemon == InitPokemon /\ [][PokeNext]_vars

InitRun == RunInit /\ CardsIdle /\ ExportIdle /\ RegionIdle /\ PokeIdle /\ ChainIdle
SpecRun == InitRun /\ [][RunNext]_vars

InitChain == ChainInit /\ CardsIdle /\ ExportIdle /\ RegionIdle /\ PokeIdle /\ RunIdle
SpecChain == InitChain /\ [][ChainNext]_vars

====
